---- MODULE Spec2Model ----
(***************************************************************************)
(* Model of the IMDb ingestion-and-append-sync pipeline:                   *)
(*   scraping_imdb.py   ScrapingImdb (fetch with retry, DataFrame build,   *)
(*                      enrichment, drop_duplicates)                       *)
(*   google_drive_api.py GoogleDriveAPI (credentials, sheet read, append)  *)
(*   main.py            main / hello_http                                  *)
(*                                                                         *)
(* Every cell of a table or of the remote sheet is a string: the Sheets    *)
(* API returns formatted strings, and a float64 is written here by its     *)
(* pandas rendering ("7" parses to "7.0").  Cells are never empty, so the  *)
(* trimming of trailing empty rows and cells by values().get is not        *)
(* exercised.                                                              *)
(***************************************************************************)
EXTENDS Integers, Sequences, FiniteSets, TLC

\* ------------------------------------------------------------------ bounds
\* data lines (after the header line) of a downloaded text
MaxLines == 2
\* rows of a table handed directly to update_gsheet_data
MaxRows == 2
\* rows of a table handed to the deduplication on its own
MaxDedupRows == 4
\* applications of the deduplication to the same table
MaxPasses == 2
\* rows the remote sheet may hold before no further call is started
MaxSheetRows == MaxLines + 2

\* ------------------------------------------------------- program constants
MAX_ATTEMPS == 5
TESTING_TAIL == 10
SOURCE == "imdb"
DATE == "2026-11-02"
TIMESTAMP == "2026-11-02T00:00:00+00:00"
WEEK == "45"
CURRENT_YEAR == "2026"

\* the two callers that may target the same sheet
Writers == {1, 2}
Other(w) == IF w = 1 THEN 2 ELSE 1

\* ---------------------------------------------------------------- helpers
SeqsUpTo(S, n) == UNION {[1..k -> S] : k \in 0..n}

Max(a, b) == IF a >= b THEN a ELSE b

\* DataFrame.tail(n): the last n rows, in order
tail(rows, n) == SubSeq(rows, Max(1, Len(rows) - n + 1), Len(rows))

\* ------------------------------------------------------- downloaded texts
\* A text is the sequence of its lines ('\n'), a line the sequence of its
\* fields ('\t'); <<>> is the empty string and << <<"">> >> a lone newline.
HeaderLine == <<"tconst", "averageRating", "numVotes">>
EmptyLine == <<"">>
Keys == {"tt001", "tt002"}
RatingFields == {"7", "8", "\\N"}
VotesFields == {"10"}
Lines == {<<k, r, v>> : k \in Keys, r \in RatingFields, v \in VotesFields}
Texts ==
    {<<>>}
    \cup {<<HeaderLine>> \o ls : ls \in SeqsUpTo(Lines, MaxLines)}
    \cup {<<HeaderLine>> \o ls \o <<EmptyLine>> : ls \in SeqsUpTo(Lines, MaxLines)}

\* str.strip() on the whole text: leading and trailing blank lines go
RECURSIVE StripTrailing(_)
StripTrailing(t) ==
    IF t # <<>> /\ t[Len(t)] = EmptyLine
    THEN StripTrailing(SubSeq(t, 1, Len(t) - 1))
    ELSE t

RECURSIVE StripLeading(_)
StripLeading(t) ==
    IF t # <<>> /\ t[1] = EmptyLine THEN StripLeading(Tail(t)) ELSE t

strip(t) == StripLeading(StripTrailing(t))

\* ''.split('\n') is [''], never []
split_lines(t) == IF t = <<>> THEN <<EmptyLine>> ELSE t

\* astype('float64') of one field: the float's rendering, or no value
FloatOf == ("7" :> "7.0") @@ ("8" :> "8.0") @@ ("10" :> "10.0")
IsNumeric(s) == s \in DOMAIN FloatOf

\* ------------------------------------------------------------------ tables
PipelineColumns ==
    <<SOURCE, "rating", "votes", "date", "timestamp", "week", "currentYear", "source">>
RawColumns == <<SOURCE, "rating", "votes">>

NoTable == [columns |-> <<>>, rows |-> <<>>]

\* a normalization that skips the rows that do not parse
generate_df_export_skip(text) ==
    LET rows == split_lines(strip(text))
        Good(l) == Len(l) = 3 /\ IsNumeric(l[2]) /\ IsNumeric(l[3])
        data == SelectSeq(Tail(rows), Good)
    IN  [raises |-> "",
         df |-> [columns |-> <<SOURCE, "rating", "votes">>,
                 rows |-> [i \in 1..Len(data) |->
                             <<data[i][1], FloatOf[data[i][2]], FloatOf[data[i][3]]>>]]]

\* __generate_df_export: rows of fields -> DataFrame or an exception
generate_df_export(text) ==
    LET rows == split_lines(strip(text))
        data == Tail(rows)
        shape_ok == \A i \in 1..Len(data) : Len(data[i]) = Len(RawColumns)
        cast_ok == \A i \in 1..Len(data) : IsNumeric(data[i][2]) /\ IsNumeric(data[i][3])
    IN  IF ~shape_ok THEN [raises |-> "shape", df |-> NoTable]
        ELSE IF ~cast_ok THEN [raises |-> "cast", df |-> NoTable]
        ELSE [raises |-> "",
              df |-> [columns |-> RawColumns,
                      rows |-> [i \in 1..Len(data) |->
                                  <<data[i][1], FloatOf[data[i][2]], FloatOf[data[i][3]]>>]]]

\* __complete_df_fields: the run-wide enrichment columns, same for every row
complete_df_fields(t) ==
    [columns |-> t.columns \o <<"date", "timestamp", "week", "currentYear", "source">>,
     rows |-> [i \in 1..Len(t.rows) |->
                 t.rows[i] \o <<DATE, TIMESTAMP, WEEK, CURRENT_YEAR, SOURCE>>]]

\* position of the column named c (0 if absent)
ColumnIndex(columns, c) ==
    IF \E i \in 1..Len(columns) : columns[i] = c
    THEN CHOOSE i \in 1..Len(columns) : columns[i] = c
    ELSE 0

\* drop_duplicates(subset=..., keep='first'): one pass over the rows, a row
\* is kept when its key has not been seen
RECURSIVE DropSeen(_, _, _)
DropSeen(rows, k, seen) ==
    IF rows = <<>> THEN <<>>
    ELSE IF Head(rows)[k] \in seen
         THEN DropSeen(Tail(rows), k, seen)
         ELSE <<Head(rows)>> \o DropSeen(Tail(rows), k, seen \cup {Head(rows)[k]})

\* keep='last': the pass runs over the rows from the end
RECURSIVE Reverse(_)
Reverse(q) == IF q = <<>> THEN <<>> ELSE Append(Reverse(Tail(q)), Head(q))

drop_duplicates_last(t, subset) ==
    [columns |-> t.columns,
     rows |-> Reverse(DropSeen(Reverse(t.rows), ColumnIndex(t.columns, subset), {}))]

\* a pass that removes only the first repeated row it meets
RECURSIVE DropOne(_, _, _)
DropOne(rows, k, seen) ==
    IF rows = <<>> THEN <<>>
    ELSE IF Head(rows)[k] \in seen
         THEN Tail(rows)
         ELSE <<Head(rows)>> \o DropOne(Tail(rows), k, seen \cup {Head(rows)[k]})

drop_duplicates_once(t, subset) ==
    [columns |-> t.columns,
     rows |-> DropOne(t.rows, ColumnIndex(t.columns, subset), {})]

drop_duplicates(t, subset) ==
    [columns |-> t.columns,
     rows |-> DropSeen(t.rows, ColumnIndex(t.columns, subset), {})]

\* __delete_repeats_by_imdb
delete_repeats_by_imdb(t) == drop_duplicates(t, "imdb")

\* ------------------------------------------------------- the sync engine
\* tables a caller hands directly to update_gsheet_data
CallColumns == {<<"imdb", "rating">>, <<"rating", "imdb">>, <<"imdb", "votes">>, <<"imdb">>}
CallRow(columns, v) == [i \in 1..Len(columns) |-> IF i = 1 THEN v ELSE "x"]
CallTables ==
    {[columns |-> c, rows |-> [i \in 1..Len(vs) |-> CallRow(c, vs[i])]] :
        c \in CallColumns, vs \in SeqsUpTo({"a", "b"}, MaxRows)}

\* set of the names of a header
Names(h) == {h[i] : i \in 1..Len(h)}

\* update_plan without `data = data[1:]`: the header goes out with every append
update_plan_keeps_header(existent_content, t) ==
    LET data == <<t.columns>> \o t.rows
    IN  IF existent_content # <<>>
        THEN IF existent_content[1] # t.columns
             THEN [raises |-> TRUE, index0 |-> 1 + Len(existent_content), data |-> data, row |-> 1]
             ELSE [raises |-> FALSE, index0 |-> 1 + Len(existent_content), data |-> data,
                   row |-> Len(existent_content) + 1]
        ELSE [raises |-> FALSE, index0 |-> 2, data |-> data, row |-> 1]

\* update_plan comparing the headers as sets of names
update_plan_unordered(existent_content, t) ==
    LET data == <<t.columns>> \o t.rows
    IN  IF existent_content # <<>>
        THEN IF Names(existent_content[1]) # Names(t.columns)
             THEN [raises |-> TRUE, index0 |-> 1 + Len(existent_content), data |-> data, row |-> 1]
             ELSE [raises |-> FALSE, index0 |-> 1 + Len(existent_content), data |-> Tail(data),
                   row |-> Len(existent_content) + 1]
        ELSE [raises |-> FALSE, index0 |-> 2, data |-> data, row |-> 1]

\* update_plan with range A{len(existent_content)}: the last row is written over
update_plan_last_row(existent_content, t) ==
    LET data == <<t.columns>> \o t.rows
    IN  IF existent_content # <<>>
        THEN IF existent_content[1] # t.columns
             THEN [raises |-> TRUE, index0 |-> 1 + Len(existent_content), data |-> data, row |-> 1]
             ELSE [raises |-> FALSE, index0 |-> 1 + Len(existent_content), data |-> Tail(data),
                   row |-> Len(existent_content)]
        ELSE [raises |-> FALSE, index0 |-> 2, data |-> data, row |-> 1]

\* update_plan whose fresh write goes to the first DataFrame index, row 2
update_plan_fresh_row2(existent_content, t) ==
    LET data == <<t.columns>> \o t.rows
    IN  IF existent_content # <<>>
        THEN IF existent_content[1] # t.columns
             THEN [raises |-> TRUE, index0 |-> 1 + Len(existent_content), data |-> data, row |-> 1]
             ELSE [raises |-> FALSE, index0 |-> 1 + Len(existent_content), data |-> Tail(data),
                   row |-> Len(existent_content) + 1]
        ELSE [raises |-> FALSE, index0 |-> 2, data |-> data, row |-> 2]

\* update_plan refusing a table without rows
update_plan_empty_raises(existent_content, t) ==
    LET data == <<t.columns>> \o t.rows
    IN  IF t.rows = <<>>
        THEN [raises |-> TRUE, index0 |-> 2, data |-> data, row |-> 1]
        ELSE IF existent_content # <<>>
        THEN IF existent_content[1] # t.columns
             THEN [raises |-> TRUE, index0 |-> 1 + Len(existent_content), data |-> data, row |-> 1]
             ELSE [raises |-> FALSE, index0 |-> 1 + Len(existent_content), data |-> Tail(data),
                   row |-> Len(existent_content) + 1]
        ELSE [raises |-> FALSE, index0 |-> 2, data |-> data, row |-> 1]

\* lines 337-361 of update_gsheet_data: the first DataFrame index, the
\* payload and the first row of the destination range, or the header
\* mismatch exception
update_plan(existent_content, t) ==
    LET index0 == IF Len(existent_content) > 0 THEN 1 + Len(existent_content) ELSE 2
        data == <<t.columns>> \o t.rows
    IN  IF existent_content # <<>>
        THEN IF existent_content[1] # t.columns
             THEN [raises |-> TRUE, index0 |-> index0, data |-> data, row |-> 1]
             ELSE [raises |-> FALSE, index0 |-> index0, data |-> Tail(data),
                   row |-> Len(existent_content) + 1]
        ELSE [raises |-> FALSE, index0 |-> index0, data |-> data, row |-> 1]

\* one row of values().update: the cells given replace the cells there,
\* cells to the right of the payload row stay
OverlayRow(old, new) == new \o SubSeq(old, Len(new) + 1, Len(old))

\* values().append in place of values().update: the payload goes below the
\* last row, whatever the range says
values_append(s, row, data) == s \o data

\* an update that inserts the payload at `row` and moves the rows there down
values_update_insert(s, row, data) ==
    SubSeq(s, 1, row - 1) \o data \o SubSeq(s, row, Len(s))

\* spreadsheets().values().update at column A, first row `row`
values_update(s, row, data) ==
    LET last == Max(Len(s), row + Len(data) - 1)
    IN  [i \in 1..last |->
            IF i >= row /\ i < row + Len(data)
            THEN OverlayRow(IF i <= Len(s) THEN s[i] ELSE <<>>, data[i - row + 1])
            ELSE IF i <= Len(s) THEN s[i] ELSE <<>>]

\* which writer's call last wrote each row
values_origin(o, row, n, w) ==
    LET last == Max(Len(o), row + n - 1)
    IN  [i \in 1..last |->
            IF i >= row /\ i < row + n THEN w
            ELSE IF i <= Len(o) THEN o[i] ELSE 0]

\* ------------------------------------------------------------- credentials
\* what token.json holds when check_credentials runs
TokenStates == {"missing", "valid", "expired", "invalid"}

\* check_credentials with the existence test first: without a token file the
\* credential comes from the client-secrets flow
check_credentials_flow_on_missing(token_file, renew_ok) ==
    IF token_file = "valid" THEN TRUE ELSE renew_ok

\* check_credentials: TRUE when it returns a credential, FALSE when it raises.
\* With no token file `credentials` stays None and line 30 reads
\* credentials.valid of None.
check_credentials(token_file, renew_ok) ==
    IF token_file = "missing" THEN FALSE
    ELSE IF token_file = "valid" THEN TRUE
    ELSE renew_ok

\* ------------------------------------------------------------------- state
VARIABLES
    sheet,              \* rows of Sheet1 of the destination document
    origin,             \* per row of sheet: the writer whose call wrote it last
    file_exists,        \* the destination document exists in the folder
    pc,                 \* per writer: where its call stands
    mode,               \* per writer: "main" (a run) or "call" (update_gsheet_data alone)
    df,                 \* per writer: the DataFrame in hand
    existent_content,   \* per writer: what its read of the sheet returned
    attemps,            \* per writer: the retry counter of the download
    responses,          \* per writer: outcome of every requests.get of the run
    data_imdb,          \* per writer: what __download_source_imdb returned
    error,              \* per writer: the exception that left the call ("" if none)
    sheet_at_call,      \* per writer: the sheet when its call started
    updates,            \* per writer: values().update calls applied in its call
    raced,              \* per writer: its read and the other writer's read both precede both writes
    reads,              \* per writer: reads of the sheet its call has issued
    token,              \* per writer: what token.json held when its run built the GoogleDriveAPI of the sync ("" before)
    df_in,              \* the table first handed to the deduplication
    passes              \* applications of the deduplication to df_in

vars == <<sheet, origin, file_exists, pc, mode, df, existent_content, attemps,
          responses, data_imdb, error, sheet_at_call, updates, raced, reads, token,
          df_in, passes>>

remote == <<sheet, origin, file_exists>>
dedup == <<df_in, passes>>

NoneText == [none |-> TRUE, text |-> <<>>]
SomeText(t) == [none |-> FALSE, text |-> t]

Idle(w) == pc[w] \in {"idle", "done", "raised"}

InitWriters ==
    /\ pc = [w \in Writers |-> "idle"]
    /\ mode = [w \in Writers |-> "call"]
    /\ existent_content = [w \in Writers |-> <<>>]
    /\ attemps = [w \in Writers |-> 0]
    /\ responses = [w \in Writers |-> <<>>]
    /\ data_imdb = [w \in Writers |-> NoneText]
    /\ error = [w \in Writers |-> ""]
    /\ sheet_at_call = [w \in Writers |-> <<>>]
    /\ updates = [w \in Writers |-> 0]
    /\ raced = [w \in Writers |-> FALSE]
    /\ reads = [w \in Writers |-> 0]
    /\ token = [w \in Writers |-> ""]

Init ==
    /\ sheet = <<>>
    /\ origin = <<>>
    /\ file_exists \in BOOLEAN
    /\ InitWriters
    /\ df = [w \in Writers |-> NoTable]
    /\ df_in = NoTable
    /\ passes = 0

\* the sheet stays within MaxSheetRows when n more rows (and the header, on
\* an empty sheet) are written
RoomFor(n) == Len(sheet) + n + (IF sheet = <<>> THEN 1 ELSE 0) <= MaxSheetRows

\* a call begins: everything the writer held from its previous call is gone
Begin(w, m, t) ==
    /\ Idle(w)
    /\ mode' = [mode EXCEPT ![w] = m]
    /\ df' = [df EXCEPT ![w] = t]
    /\ existent_content' = [existent_content EXCEPT ![w] = <<>>]
    /\ attemps' = [attemps EXCEPT ![w] = 0]
    /\ responses' = [responses EXCEPT ![w] = <<>>]
    /\ data_imdb' = [data_imdb EXCEPT ![w] = NoneText]
    /\ error' = [error EXCEPT ![w] = ""]
    /\ sheet_at_call' = [sheet_at_call EXCEPT ![w] = sheet]
    /\ updates' = [updates EXCEPT ![w] = 0]
    /\ raced' = [raced EXCEPT ![w] = FALSE]
    /\ reads' = [reads EXCEPT ![w] = 0]
    /\ token' = [token EXCEPT ![w] = ""]

\* an exception leaves the call
Raise(w, e) ==
    /\ pc' = [pc EXCEPT ![w] = "raised"]
    /\ error' = [error EXCEPT ![w] = e]

\* --------------------------------------------------------------- the run
\* hello_http -> main -> ScrapingImdb().process()
main(w) ==
    /\ RoomFor(MaxLines)
    /\ Begin(w, "main", NoTable)
    /\ pc' = [pc EXCEPT ![w] = "download"]
    /\ UNCHANGED <<remote, dedup>>

\* the loop condition with <= in place of <
may_request_inclusive(n) == n <= MAX_ATTEMPS

\* the loop condition of __download_source_imdb
may_request(n) == n < MAX_ATTEMPS

\* what one iteration can raise: a RequestException ("fail": transport
\* error or non-2xx status), or on a 2xx response a gzip or a UTF-8 error
Failures == {"fail", "gzip", "utf8"}

\* `except Exception` in place of the RequestException clause
is_caught_any(e) == e \in Failures

\* the except clause of the loop: requests.exceptions.RequestException
is_caught(e) == e = "fail"

\* one iteration of the retry loop: requests.get, raise_for_status, gunzip,
\* decode
download_source_imdb(w) ==
    /\ pc[w] = "download"
    /\ may_request(attemps[w])
    /\ \/ \* the iteration raises
          \E e \in Failures :
             /\ responses' = [responses EXCEPT ![w] = Append(@, e)]
             /\ IF is_caught(e)
                THEN /\ attemps' = [attemps EXCEPT ![w] = @ + 1]
                     /\ IF may_request(attemps[w] + 1)
                        THEN UNCHANGED <<pc, data_imdb>>
                        ELSE /\ pc' = [pc EXCEPT ![w] = "process"]
                             /\ data_imdb' = [data_imdb EXCEPT ![w] = NoneText]
                     /\ UNCHANGED error
                ELSE /\ Raise(w, "decode")
                     /\ UNCHANGED <<attemps, data_imdb>>
       \/ \* 2xx with a well-formed body: the decoded text is returned
          /\ \E t \in Texts :
                data_imdb' = [data_imdb EXCEPT ![w] = SomeText(t)]
          /\ responses' = [responses EXCEPT ![w] = Append(@, "ok")]
          /\ pc' = [pc EXCEPT ![w] = "process"]
          /\ UNCHANGED <<attemps, error>>
    /\ UNCHANGED <<reads, token, remote, dedup, mode, df, existent_content, sheet_at_call, updates, raced>>

\* __process lines 66-70: the None/empty check, then __generate_df_export
process_generate(w) ==
    /\ pc[w] = "process"
    /\ IF data_imdb[w].none \/ data_imdb[w].text = <<>>
       THEN Raise(w, "download") /\ UNCHANGED df
       ELSE LET r == generate_df_export(data_imdb[w].text)
            IN  IF r.raises # ""
                THEN Raise(w, "normalize") /\ UNCHANGED df
                ELSE /\ df' = [df EXCEPT ![w] = r.df]
                     /\ pc' = [pc EXCEPT ![w] = "complete"]
                     /\ UNCHANGED error
    /\ UNCHANGED <<reads, token, remote, dedup, mode, existent_content, attemps, responses,
                   data_imdb, sheet_at_call, updates, raced>>

process_complete(w) ==
    /\ pc[w] = "complete"
    /\ df' = [df EXCEPT ![w] = complete_df_fields(@)]
    /\ pc' = [pc EXCEPT ![w] = "dedupe"]
    /\ UNCHANGED <<reads, token, remote, dedup, mode, existent_content, attemps, responses,
                   data_imdb, error, sheet_at_call, updates, raced>>

process_dedupe(w) ==
    /\ pc[w] = "dedupe"
    /\ df' = [df EXCEPT ![w] = delete_repeats_by_imdb(@)]
    /\ pc' = [pc EXCEPT ![w] = "credentials"]
    /\ UNCHANGED <<reads, token, remote, dedup, mode, existent_content, attemps, responses,
                   data_imdb, error, sheet_at_call, updates, raced>>

\* __upload_gsheet_testing line 25: GoogleDriveAPI() runs check_credentials
GoogleDriveAPI_init(w) ==
    /\ pc[w] = "credentials"
    /\ \E tk \in TokenStates, renew_ok \in BOOLEAN :
          /\ token' = [token EXCEPT ![w] = tk]
          /\ IF check_credentials(tk, renew_ok)
             THEN pc' = [pc EXCEPT ![w] = "create_file"] /\ UNCHANGED error
             ELSE Raise(w, "credential")
    /\ UNCHANGED <<reads, remote, dedup, mode, df, existent_content, attemps, responses,
                   data_imdb, sheet_at_call, updates, raced>>

\* __upload_gsheet_testing lines 30-34: tail(10), find or create the
\* document, then call update_gsheet_data on it
create_gsheet_file_in_folder(w) ==
    /\ pc[w] = "create_file"
    /\ \/ /\ Raise(w, "http")
          /\ UNCHANGED <<file_exists, df>>
       \/ /\ file_exists' = TRUE
          /\ df' = [df EXCEPT ![w] = [@ EXCEPT !.rows = tail(@, TESTING_TAIL)]]
          /\ pc' = [pc EXCEPT ![w] = "read"]
          /\ UNCHANGED error
    /\ UNCHANGED <<reads, token, sheet, origin, dedup, mode, existent_content, attemps, responses,
                   data_imdb, sheet_at_call, updates, raced>>

\* ------------------------------------------------------ update_gsheet_data
\* a caller hands a table of its own to update_gsheet_data
update_gsheet_data(w, t) ==
    /\ file_exists
    /\ RoomFor(Len(t.rows))
    /\ Begin(w, "call", t)
    /\ pc' = [pc EXCEPT ![w] = "read"]
    /\ UNCHANGED <<remote, dedup>>

\* line 330: the read of the whole sheet
read_gsheet_file_content(w) ==
    /\ pc[w] = "read"
    /\ reads' = [reads EXCEPT ![w] = @ + 1]
    /\ \/ /\ Raise(w, "http")
          /\ UNCHANGED <<existent_content, raced>>
       \/ /\ existent_content' = [existent_content EXCEPT ![w] = sheet]
          /\ pc' = [pc EXCEPT ![w] = "update"]
          /\ raced' = IF pc[Other(w)] = "update"
                      THEN [v \in Writers |-> TRUE]
                      ELSE [raced EXCEPT ![w] = FALSE]
          /\ UNCHANGED error
    /\ UNCHANGED <<token, remote, dedup, mode, df, attemps, responses, data_imdb,
                   sheet_at_call, updates>>

\* lines 337-373: header check, payload and range, values().update
sheet_values_update(w) ==
    /\ pc[w] = "update"
    /\ LET plan == update_plan(existent_content[w], df[w])
       IN  \/ /\ plan.raises
              /\ Raise(w, "schema")
              /\ UNCHANGED <<sheet, origin, updates>>
           \/ /\ ~plan.raises
              /\ Raise(w, "http")
              /\ UNCHANGED <<sheet, origin, updates>>
           \/ /\ ~plan.raises
              /\ sheet' = values_update(sheet, plan.row, plan.data)
              /\ origin' = values_origin(origin, plan.row, Len(plan.data), w)
              /\ updates' = [updates EXCEPT ![w] = @ + 1]
              /\ pc' = [pc EXCEPT ![w] = IF mode[w] = "main" THEN "upload_file" ELSE "done"]
              /\ UNCHANGED error
    /\ UNCHANGED <<reads, token, file_exists, dedup, mode, df, existent_content, attemps, responses,
                   data_imdb, sheet_at_call, raced>>

\* main line 43: __upload_file builds a GoogleDriveAPI of its own (a second
\* check_credentials), then calls GoogleDriveAPI.create_file_with_content, a
\* method the class does not define
upload_file(w) ==
    /\ pc[w] = "upload_file"
    /\ \E tk \in TokenStates, renew_ok \in BOOLEAN :
          IF check_credentials(tk, renew_ok)
          THEN Raise(w, "upload_file")
          ELSE Raise(w, "upload_credential")
    /\ UNCHANGED <<reads, token, remote, dedup, mode, df, existent_content, attemps, responses,
                   data_imdb, sheet_at_call, updates, raced>>

\* ------------------------------------------------------- specifications
\* one writer: runs and direct calls, one after another
Writer(w) ==
    \/ main(w)
    \/ download_source_imdb(w)
    \/ process_generate(w)
    \/ process_complete(w)
    \/ process_dedupe(w)
    \/ GoogleDriveAPI_init(w)
    \/ create_gsheet_file_in_folder(w)
    \/ \E t \in CallTables : update_gsheet_data(w, t)
    \/ read_gsheet_file_content(w)
    \/ sheet_values_update(w)
    \/ upload_file(w)

Next == Writer(1)

Spec == Init /\ [][Next]_vars

\* two writers on the same sheet, each calling update_gsheet_data
\* each writer's rows carry its own value
RaceValue(w) == IF w = 1 THEN "a" ELSE "b"
RaceTables(w) ==
    {t \in CallTables :
        /\ t.columns \in {<<"imdb", "rating">>, <<"imdb">>}
        /\ \A i \in 1..Len(t.rows) : t.rows[i][1] = RaceValue(w)}

SyncCall(w) ==
    \/ \E t \in RaceTables(w) : update_gsheet_data(w, t)
    \/ read_gsheet_file_content(w)
    \/ sheet_values_update(w)

InitRace == Init /\ file_exists

NextRace == \E w \in Writers : SyncCall(w)

SpecRace == InitRace /\ [][NextRace]_vars

\* the deduplication on its own, applied to any table
DedupRatings == {"7.0", "8.0"}
DedupKeys == Keys \cup {"tt003"}
DedupRows ==
    {<<k, r, "10.0", DATE, TIMESTAMP, WEEK, CURRENT_YEAR, SOURCE>> :
        k \in DedupKeys, r \in DedupRatings}
DedupTables ==
    {[columns |-> PipelineColumns, rows |-> rs] : rs \in SeqsUpTo(DedupRows, MaxDedupRows)}

InitDedup ==
    /\ sheet = <<>>
    /\ origin = <<>>
    /\ file_exists = FALSE
    /\ InitWriters
    /\ df_in \in DedupTables
    /\ passes = 0
    /\ df = [w \in Writers |-> df_in]

apply_dedupe ==
    /\ passes < MaxPasses
    /\ df' = [df EXCEPT ![1] = delete_repeats_by_imdb(@)]
    /\ passes' = passes + 1
    /\ UNCHANGED <<reads, token, remote, df_in, pc, mode, existent_content, attemps, responses,
                   data_imdb, error, sheet_at_call, updates, raced>>

NextDedup == apply_dedupe

SpecDedup == InitDedup /\ [][NextDedup]_vars

\* ------------------------------------------------------------ properties
\* the call of writer w has applied its values().update
Written(w) == updates[w] = 1

\* p is q's beginning
IsPrefix(p, q) == Len(p) <= Len(q) /\ \A i \in 1..Len(p) : q[i] = p[i]

\* C1 (append offset): after update_gsheet_data has written on a sheet whose
\* read returned N >= 1 rows with the table's column list as first row, the
\* table's M rows stand at rows N+1 .. N+M in table order, no header row was
\* added, and rows 1 .. N are what the read returned.
C1_AppendOffset ==
    LET N == Len(existent_content[1])
        M == Len(df[1].rows)
    IN  (Written(1) /\ N >= 1 /\ existent_content[1][1] = df[1].columns) =>
            /\ Len(sheet) = N + M
            /\ \A i \in 1..M : sheet[N + i] = df[1].rows[i]
            /\ \A i \in 1..N : sheet[i] = existent_content[1][i]
            /\ sheet[1] = df[1].columns

C1_Witness ==
    /\ Written(1)
    /\ Len(existent_content[1]) >= 2
    /\ existent_content[1][1] = df[1].columns
    /\ Len(df[1].rows) = 2
    /\ df[1].rows[1] # df[1].rows[2]

\* C2 (schema guard): a call whose read returned content with a first row
\* other than the table's column list (a name, the order or the length
\* differs) ends in the header exception, has written nothing, and the
\* sheet is what it was when the call started.
C2_SchemaGuard ==
    LET mismatch == /\ existent_content[1] # <<>>
                    /\ existent_content[1][1] # df[1].columns
    IN  (mismatch /\ pc[1] # "update") =>
            /\ pc[1] = "raised"
            /\ error[1] = "schema"
            /\ updates[1] = 0
            /\ sheet = sheet_at_call[1]

C2_Witness ==
    /\ pc[1] = "raised"
    /\ error[1] = "schema"
    /\ Len(sheet) >= 2
    /\ existent_content[1][1] = <<"rating", "imdb">>
    /\ df[1].columns = <<"imdb", "rating">>
    /\ df[1].rows # <<>>

\* C3 (append-only, single writer): every step of a sequence of runs and
\* calls leaves each row of the sheet where it was, with the same content;
\* the sheet only grows at its end.
C3_AppendOnly == [][IsPrefix(sheet, sheet')]_vars

C3_Witness ==
    /\ Written(1)
    /\ Len(existent_content[1]) >= 2
    /\ Len(sheet) > Len(existent_content[1])

\* C4 as stated (fresh write): a run's write on a sheet whose read returned
\* nothing puts the header [key, rating, votes, date, timestamp, week,
\* currentYear, source] at row 1 and the table's M rows at rows 2 .. 1+M.
C4_FreshWriteKeyHeader ==
    (Written(1) /\ existent_content[1] = <<>>) =>
        /\ sheet = <<df[1].columns>> \o df[1].rows
        /\ mode[1] = "main" =>
              sheet[1] = <<"key", "rating", "votes", "date", "timestamp", "week",
                           "currentYear", "source">>

\* C4 amended (fresh write): a write on a sheet whose read returned nothing
\* starts at row 1, puts the table's column names at row 1 and its M rows at
\* rows 2 .. 1+M; for a run the names are [imdb, rating, votes, date,
\* timestamp, week, currentYear, source].
C4_FreshWrite ==
    (Written(1) /\ existent_content[1] = <<>>) =>
        /\ Len(sheet) = 1 + Len(df[1].rows)
        /\ sheet[1] = df[1].columns
        /\ \A i \in 1..Len(df[1].rows) : sheet[1 + i] = df[1].rows[i]
        /\ mode[1] = "main" =>
              sheet[1] = <<"imdb", "rating", "votes", "date", "timestamp", "week",
                           "currentYear", "source">>

C4_Witness ==
    /\ Written(1)
    /\ mode[1] = "main"
    /\ existent_content[1] = <<>>
    /\ Len(df[1].rows) = 2

\* C5 (retry bound): a run issues at most 5 requests; a request is issued
\* only after transport failures; a success after k < 5 failures returns
\* the text with k+1 requests made; 5 failures return None and no request
\* follows.
C5_RetryBound ==
    LET r == responses[1]
        n == Len(r)
    IN  /\ n <= 5
        /\ \A i \in 1..(n - 1) : r[i] = "fail"
        /\ attemps[1] = Cardinality({i \in 1..n : r[i] = "fail"})
        /\ (n >= 1 /\ r[n] = "ok") =>
              /\ ~data_imdb[1].none
              /\ pc[1] # "download"
              /\ n = attemps[1] + 1
        /\ (n = 5 /\ r[n] = "fail") =>
              /\ data_imdb[1].none
              /\ pc[1] \in {"process", "raised"}
              /\ pc[1] = "raised" => error[1] = "download"
        /\ pc[1] = "download" => (n < 5 /\ \A i \in 1..n : r[i] = "fail")

C5_Witness ==
    /\ responses[1] = <<"fail", "fail", "fail", "fail", "ok">>
    /\ ~data_imdb[1].none
    /\ data_imdb[1].text # <<>>

\* C6 (decode failures are not retried): a gzip or UTF-8 error on a 2xx
\* response is the run's last request, whatever the attempts used so far,
\* and leaves the run at once as its exception.
C6_DecodeNotRetried ==
    LET r == responses[1]
    IN  \A i \in 1..Len(r) :
            r[i] \in {"gzip", "utf8"} =>
                /\ i = Len(r)
                /\ pc[1] = "raised"
                /\ error[1] = "decode"
                /\ attemps[1] = i - 1
                /\ updates[1] = 0

C6_Witness ==
    /\ Len(responses[1]) = 5
    /\ responses[1][5] = "utf8"
    /\ pc[1] = "raised"

\* rows of a table whose key occurs at no lower index
FirstIndexes(rows) ==
    {i \in 1..Len(rows) : \A j \in 1..(i - 1) : rows[j][1] # rows[i][1]}

\* C7 (dedup keeps first, stable): the deduplicated table is the input rows
\* whose key occurs at no lower index, in input order; every key of the
\* input occurs once in it.
C7_DedupKeepsFirst ==
    LET in == df_in.rows
        out == df[1].rows
        K == FirstIndexes(in)
    IN  passes >= 1 =>
            /\ df[1].columns = df_in.columns
            /\ Len(out) = Cardinality(K)
            /\ \A i \in K : out[Cardinality({j \in K : j <= i})] = in[i]
            /\ \A i \in 1..Len(in) :
                  Cardinality({j \in 1..Len(out) : out[j][1] = in[i][1]}) = 1

C7_Witness ==
    /\ passes = 1
    /\ Len(df_in.rows) = 4
    /\ Len(df[1].rows) = 2
    /\ df_in.rows[1][1] = df_in.rows[3][1]
    /\ df_in.rows[1] # df_in.rows[3]
    /\ df_in.rows[2][1] = df_in.rows[4][1]

\* C8 (dedup idempotent): applying the deduplication to a table that is
\* already deduplicated leaves it as it is, rows and order.
C8_DedupIdempotent == [][(passes >= 1 /\ passes' = passes + 1) => df' = df]_vars

C8_Witness ==
    /\ passes = 2
    /\ Len(df_in.rows) = 4
    /\ Len(df[1].rows) = 1

\* a data line of the text carries a rating or votes field that is no number
HasNonNumeric(text) ==
    \E i \in 2..Len(text) :
        Len(text[i]) = 3 /\ ~(IsNumeric(text[i][2]) /\ IsNumeric(text[i][3]))

\* C9 (atomic outcome of a run): a run that fails in the fetch, the decode,
\* the normalization (one non-numeric value fails the whole batch) or the
\* header check ends in its exception with no write and the sheet as it
\* was; at every point of a run the sheet is either what it was at the
\* start or that plus the whole payload of the run's one write.
C9_AtomicRun ==
    mode[1] = "main" =>
        /\ (pc[1] = "raised" /\ error[1] \in {"download", "decode", "normalize", "schema"}) =>
              (updates[1] = 0 /\ sheet = sheet_at_call[1])
        /\ (~data_imdb[1].none /\ HasNonNumeric(data_imdb[1].text) /\ pc[1] # "process") =>
              (pc[1] = "raised" /\ error[1] = "normalize")
        /\ updates[1] <= 1
        /\ updates[1] = 0 => sheet = sheet_at_call[1]
        /\ updates[1] = 1 =>
              sheet = sheet_at_call[1]
                        \o (IF sheet_at_call[1] = <<>> THEN <<df[1].columns>> ELSE <<>>)
                        \o df[1].rows

C9_Witness ==
    /\ mode[1] = "main"
    /\ pc[1] = "raised"
    /\ error[1] = "schema"
    /\ Len(df[1].rows) = 2
    /\ sheet # <<>>

\* the latest calls of the two writers both read before either wrote, and
\* both have written
BothReadThenWrote ==
    /\ raced[1] /\ raced[2]
    /\ pc[1] = "done" /\ pc[2] = "done"

\* a header row stands below row 1
DuplicateHeader(s) ==
    \E i \in 2..Len(s) : s[i] \in CallColumns \cup {PipelineColumns}

\* below the rows both calls read, rows of one call stand on both sides of a
\* row of the other
InterleavedRanges ==
    LET base == IF Len(existent_content[1]) <= Len(existent_content[2])
                THEN Len(existent_content[1]) ELSE Len(existent_content[2])
    IN  \E i, j, k \in (base + 1)..Len(origin) :
            /\ i < j /\ j < k
            /\ origin[i] = origin[k]
            /\ origin[j] # origin[i]

\* what a call sends and where, read off its table and its read
Payload(w) ==
    IF existent_content[w] = <<>> THEN <<df[w].columns>> \o df[w].rows ELSE df[w].rows
StartRow(w) ==
    IF existent_content[w] = <<>> THEN 1 ELSE Len(existent_content[w]) + 1

\* C10 as stated (race outcome), for two runs with the same columns whose
\* tables hold rows: when both
\* runs read before either writes, the resulting sheet holds duplicate
\* header rows or interleaved row ranges of the two runs.
C10_RaceDuplicatesOrInterleaves ==
    (/\ BothReadThenWrote
     /\ df[1].columns = df[2].columns
     /\ df[1].rows # <<>> /\ df[2].rows # <<>>) =>
        (DuplicateHeader(sheet) \/ InterleavedRanges)

\* C10 amended (race outcome): when both runs read before either writes, no
\* header row is duplicated; each write lands at the row its own read gave,
\* so the payload written last stands whole at that row; and when both read
\* the same content the two payloads start at the same row, the later one
\* replacing the earlier one's rows where they overlap, so that only the
\* earlier payload's rows past the end of the later one remain.
C10_RaceOverwrites ==
    BothReadThenWrote =>
        /\ ~DuplicateHeader(sheet)
        /\ \E L \in Writers :
              LET E == Other(L)
              IN  /\ \A i \in 1..Len(Payload(L)) :
                        /\ StartRow(L) + i - 1 <= Len(sheet)
                        /\ IsPrefix(Payload(L)[i], sheet[StartRow(L) + i - 1])
                  /\ existent_content[1] = existent_content[2] =>
                        /\ StartRow(E) = StartRow(L)
                        /\ Len(sheet) = StartRow(L) - 1 + Max(Len(Payload(E)), Len(Payload(L)))
                        /\ \A i \in (Len(Payload(L)) + 1)..Len(Payload(E)) :
                              sheet[StartRow(E) + i - 1] = Payload(E)[i]

C10_Witness ==
    /\ BothReadThenWrote
    /\ existent_content[1] = existent_content[2]
    /\ Len(existent_content[1]) >= 1
    /\ Len(df[1].rows) = 2
    /\ Len(df[2].rows) = 1
    /\ origin[Len(existent_content[1]) + 1] = 2

\* cells of a sheet
RECURSIVE Cells(_)
Cells(s) == IF s = <<>> THEN 0 ELSE Len(Head(s)) + Cells(Tail(s))

\* the call of writer 1 was handed a table without rows and is over
EmptyTableCallOver ==
    /\ df[1].rows = <<>>
    /\ df[1].columns # <<>>
    /\ pc[1] \in {"done", "upload_file", "raised"}
    /\ error[1] \notin {"download", "decode", "normalize", "credential"}

\* C11 as stated (empty table): a call with a table of zero rows still
\* checks the header, does not fail for the table being empty, and its write
\* updates zero cells, no row of the sheet being added or changed, on a
\* sheet with content and on an empty sheet alike.
C11_EmptyTableZeroCells ==
    EmptyTableCallOver =>
        /\ error[1] = "schema" =>
              (existent_content[1] # <<>> /\ existent_content[1][1] # df[1].columns)
        /\ (existent_content[1] # <<>> /\ existent_content[1][1] # df[1].columns) =>
              error[1] = "schema"
        /\ sheet = sheet_at_call[1]

\* C11 amended (empty table): a call with a table of zero rows still checks
\* the header and does not fail for the table being empty; on a sheet with
\* content its write updates zero cells and no row is added or changed; on
\* an empty sheet its write puts the column names at row 1, one cell per
\* column, and no data row.
C11_EmptyTable ==
    EmptyTableCallOver =>
        /\ error[1] = "schema" =>
              (existent_content[1] # <<>> /\ existent_content[1][1] # df[1].columns)
        /\ (existent_content[1] # <<>> /\ existent_content[1][1] # df[1].columns) =>
              error[1] = "schema"
        /\ (Written(1) /\ existent_content[1] # <<>>) =>
              (sheet = sheet_at_call[1] /\ Cells(sheet) = Cells(sheet_at_call[1]))
        /\ (Written(1) /\ existent_content[1] = <<>>) =>
              /\ sheet = <<df[1].columns>>
              /\ Cells(sheet) = Cells(sheet_at_call[1]) + Len(df[1].columns)
        /\ ~Written(1) => sheet = sheet_at_call[1]

C11_Witness ==
    /\ EmptyTableCallOver
    /\ Written(1)
    /\ Len(existent_content[1]) >= 2
    /\ sheet = existent_content[1]

\* the run of writer 1 failed to obtain the credential of its sheet sync
CredentialFailure ==
    /\ mode[1] = "main"
    /\ pc[1] = "raised"
    /\ error[1] = "credential"

RunSucceededUpToUpload ==
    /\ mode[1] = "main"
    /\ Written(1)
    /\ pc[1] # "upload_file"
    /\ error[1] # "upload_credential"

\* C13 (trigger response): when the fetch, the normalization, the
\* deduplication, the credential acquisition and every remote call succeed,
\* the entry point runs the pipeline to completion and returns the first
\* rows (up to 3) of the deduplicated table; when a step fails it returns no
\* success payload.
C13_TriggerResponse ==
    /\ RunSucceededUpToUpload => (pc[1] = "returned" /\ error[1] = "")
    /\ (mode[1] = "main" /\ error[1] # "") => pc[1] # "returned"

\* C14 (lost update under interleaving): when the latest calls of the two
\* writers read the same N rows before either wrote, both write from the
\* same row (1 if N = 0, else N+1) and the later write stands on the rows
\* the earlier one placed there, so the sheet holds N rows plus the longer
\* payload, not both; and a step writes over a row of the sheet only when
\* it is the write of a call whose read is no longer the sheet.
C14_LostUpdate ==
    /\ [](  (BothReadThenWrote /\ existent_content[1] = existent_content[2]) =>
              LET N == Len(existent_content[1])
                  start == IF N = 0 THEN 1 ELSE N + 1
              IN  \E L \in Writers :
                    LET E == Other(L)
                        PL == Payload(L)
                        PE == Payload(E)
                        both == IF Len(PE) <= Len(PL) THEN Len(PE) ELSE Len(PL)
                    IN  /\ \A i \in 1..both :
                              /\ origin[start + i - 1] = L
                              /\ IsPrefix(PL[i], sheet[start + i - 1])
                              /\ (Len(PE[i]) = Len(PL[i]) /\ PE[i] # PL[i]) =>
                                    sheet[start + i - 1] # PE[i]
                        /\ Len(sheet) = N + Max(Len(PE), Len(PL))  )
    /\ [][  \/ IsPrefix(sheet, sheet')
            \/ \E w \in Writers :
                  /\ pc[w] = "update"
                  /\ pc'[w] = "done"
                  /\ existent_content[w] # sheet  ]_vars

C14_Witness ==
    /\ BothReadThenWrote
    /\ existent_content[1] = existent_content[2]
    /\ Len(existent_content[1]) >= 2
    /\ Len(df[1].rows) = 1
    /\ Len(df[2].rows) = 1
    /\ Len(sheet) = Len(existent_content[1]) + 1
    /\ sheet[Len(sheet)] = df[1].rows[1]
    /\ sheet[Len(sheet)] # df[2].rows[1]

====
